---- MODULE Spec2Model ----
(***************************************************************************)
(* Model of the toolpath optimisation passes of gocnc (vm/optimize.go).    *)
(*                                                                         *)
(* A toolpath (vm.posStack) is a sequence of Position records.  Every      *)
(* coordinate and feedrate is an integer multiple of one machine unit, so  *)
(* the float64 comparisons of the source are exact integer comparisons.    *)
(* The two places where the source computes a square root are modelled by  *)
(* what the comparison made on the result decides (see diffFromCur and     *)
(* UnitVector).                                                            *)
(***************************************************************************)
EXTENDS Integers, Sequences, FiniteSets, TLC

VARIABLES
    posStack,   \* vm.posStack, the toolpath
    tolerance,  \* vm.tolerance
    input,      \* posStack as it was when the last pass was called
    op,         \* name of the last pass called, "none" while the path is loaded
    height,     \* numeric argument of the last call (the height, limit or multiplier)
    err         \* TRUE iff the last pass returned an error

vars == <<posStack, tolerance, input, op, height, err>>

-----------------------------------------------------------------------------
(* Data model *)

moveModeRapid == "Rapid"
moveModeLinear == "Linear"
moveModeArc == "Arc"
moveModeNone == "None"

Pos(x, y, z, mode, feed) ==
    [x |-> x, y |-> y, z |-> z, state |-> [moveMode |-> mode, feedrate |-> feed]]

Abs(n) == IF n < 0 THEN -n ELSE n

Max2(a, b) == IF a > b THEN a ELSE b

Min2(a, b) == IF a < b THEN a ELSE b

Last(s) == s[Len(s)]

SetMode(p, mode) == [p EXCEPT !.state.moveMode = mode]

\* The record the machine starts with: "the first null-move" of the toolpath.
NullMove == Pos(0, 0, 0, moveModeNone, 0)

-----------------------------------------------------------------------------
(* OptDrillSpeed *)

\* The loop of fastDrill over drillStack: acc = <<depth, found>>.
RECURSIVE DrillDepth(_, _, _, _)
DrillDepth(drillStack, i, pos, acc) ==
    IF i > Len(drillStack) THEN acc
    ELSE LET m == drillStack[i]
         IN  DrillDepth(drillStack, i + 1, pos,
                IF m.x = pos.x /\ m.y = pos.y /\ m.z < acc[1]
                THEN <<m.z, TRUE>> ELSE acc)

\* fastDrill: the records to emit for a downward linear move.
fastDrill(drillStack, pos) ==
    LET r == DrillDepth(drillStack, 1, pos, <<0, FALSE>>)
        depth == r[1]
        found == r[2]
    IN  IF found
        THEN IF pos.z >= depth
             THEN <<SetMode(pos, moveModeRapid)>>
             ELSE <<SetMode([pos EXCEPT !.z = depth], moveModeRapid), pos>>
        ELSE <<pos>>

\* s = [last |-> <<lastx, lasty, lastz>>, npos, drillStack]
DrillStep(s, m) ==
    IF m.x = s.last[1] /\ m.y = s.last[2] /\ m.z < s.last[3]
       /\ m.state.moveMode = moveModeLinear
    THEN [last |-> <<m.x, m.y, m.z>>,
          npos |-> s.npos \o fastDrill(s.drillStack, m),
          drillStack |-> Append(s.drillStack, m)]
    ELSE [last |-> <<m.x, m.y, m.z>>,
          npos |-> Append(s.npos, m),
          drillStack |-> s.drillStack]

RECURSIVE DrillScan(_, _, _)
DrillScan(stack, i, s) ==
    IF i > Len(stack) THEN s ELSE DrillScan(stack, i + 1, DrillStep(s, stack[i]))

OptDrillSpeed(stack) ==
    DrillScan(stack, 1, [last |-> <<0, 0, 0>>, npos |-> <<>>, drillStack |-> <<>>]).npos

-----------------------------------------------------------------------------
(* OptLiftSpeed *)

\* The position the scan compares record idx against.
PrevXYZ(stack, idx) ==
    IF idx = 1 THEN <<0, 0, 0>>
    ELSE <<stack[idx - 1].x, stack[idx - 1].y, stack[idx - 1].z>>

OptLiftSpeed(stack) ==
    [idx \in 1..Len(stack) |->
        LET m == stack[idx]
            l == PrevXYZ(stack, idx)
        IN  IF m.x = l[1] /\ m.y = l[2] /\ m.z > l[3]
            THEN SetMode(m, moveModeRapid)
            ELSE m]

-----------------------------------------------------------------------------
(* OptBogusMoves *)

RECURSIVE Gcd(_, _)
Gcd(a, b) == IF b = 0 THEN a ELSE Gcd(b, a % b)

\* (dx/norm, dy/norm, dz/norm).  The source compares two such vectors with ==.
\* For the integer displacements that the coordinate sets below produce
\* (|dx|, |dy| <= 1, |dz| <= 3) the float64 triples are equal exactly when the
\* directions are, so the vector is represented by the displacement divided
\* by the gcd of its components.
UnitVector(dx, dy, dz) ==
    LET g == Gcd(Gcd(Abs(dx), Abs(dy)), Abs(dz))
    IN  <<dx \div g, dy \div g, dz \div g>>

\* s = [state |-> <<xstate, ystate, zstate>>, lastvec, npos]
BogusStep(s, m) ==
    LET dx == m.x - s.state[1]
        dy == m.y - s.state[2]
        dz == m.z - s.state[3]
        moved == [s EXCEPT !.state = <<m.x, m.y, m.z>>]
    IN  IF m.state.moveMode # moveModeRapid /\ m.state.moveMode # moveModeLinear
        THEN [moved EXCEPT !.npos = Append(s.npos, m)]
        ELSE IF dx = 0 /\ dz = 0 /\ dy = 0
        THEN moved
        ELSE LET vec == UnitVector(dx, dy, dz)
             IN  IF s.lastvec = vec
                 THEN [moved EXCEPT !.npos = [s.npos EXCEPT ![Len(s.npos)] = m]]
                 ELSE [moved EXCEPT !.npos = Append(s.npos, m), !.lastvec = vec]

RECURSIVE BogusScan(_, _, _)
BogusScan(stack, i, s) ==
    IF i > Len(stack) THEN s ELSE BogusScan(stack, i + 1, BogusStep(s, stack[i]))

OptBogusMoves(stack) ==
    BogusScan(stack, 1,
              [state |-> <<0, 0, 0>>, lastvec |-> <<0, 0, 0>>, npos |-> <<>>]).npos

-----------------------------------------------------------------------------
(* SetSafetyHeight *)

\* A variant of the first loop that forgets the second test: nextz only follows
\* the maxima, as if "if m.z > nextz && m.z < maxz" were missing.
RECURSIVE ScanHeights_MaximaOnly(_, _, _)
ScanHeights_MaximaOnly(stack, i, acc) ==
    IF i > Len(stack) THEN acc
    ELSE ScanHeights_MaximaOnly(stack, i + 1,
            IF stack[i].z > acc[1] THEN <<stack[i].z, acc[1]>> ELSE acc)

\* The first loop: acc = <<maxz, nextz>>.
RECURSIVE ScanHeights(_, _, _)
ScanHeights(stack, i, acc) ==
    IF i > Len(stack) THEN acc
    ELSE LET m == stack[i]
             a == IF m.z > acc[1] THEN <<m.z, acc[1]>> ELSE acc
             b == IF m.z > a[2] /\ m.z < a[1] THEN <<a[1], m.z>> ELSE a
         IN  ScanHeights(stack, i + 1, b)

\* The second loop ("Apply the changes").
ApplyHeight(stack, maxz, h) ==
    [idx \in 1..Len(stack) |->
        LET m == stack[idx]
            l == PrevXYZ(stack, idx)
        IN  IF l[1] = m.x /\ l[2] = m.y /\ m.z = maxz
            THEN [m EXCEPT !.z = h]
            ELSE m]

SetSafetyHeight(stack, h) ==
    LET r == ScanHeights(stack, 1, <<0, 0>>)
        maxz == r[1]
        nextz == r[2]
    IN  IF h <= nextz
        THEN [err |-> TRUE, stack |-> stack]
        ELSE [err |-> FALSE, stack |-> ApplyHeight(stack, maxz, h)]

-----------------------------------------------------------------------------
(* Return *)

RECURSIVE ScanMaxZ(_, _, _)
ScanMaxZ(stack, i, maxz) ==
    IF i > Len(stack) THEN maxz
    ELSE ScanMaxZ(stack, i + 1, IF stack[i].z > maxz THEN stack[i].z ELSE maxz)

\* A variant of Return that never lifts first: the "otherwise" case is handled
\* like the case of a tool already at the maximum height.
Return_NoLift(stack) ==
    LET lastPos == Last(stack)
    IN  IF lastPos.x = 0 /\ lastPos.y = 0 /\ lastPos.z = 0
        THEN stack
        ELSE IF lastPos.x = 0 /\ lastPos.y = 0 /\ lastPos.z # 0
        THEN Append(stack, SetMode([lastPos EXCEPT !.z = 0], moveModeRapid))
        ELSE LET move1 == SetMode([lastPos EXCEPT !.x = 0, !.y = 0], moveModeRapid)
                 move2 == [move1 EXCEPT !.z = 0]
             IN  stack \o <<move1, move2>>

Return(stack) ==
    LET maxz == ScanMaxZ(stack, 1, 0)
        lastPos == Last(stack)
    IN  IF lastPos.x = 0 /\ lastPos.y = 0 /\ lastPos.z = 0
        THEN stack
        ELSE IF lastPos.x = 0 /\ lastPos.y = 0 /\ lastPos.z # 0
        THEN Append(stack, SetMode([lastPos EXCEPT !.z = 0], moveModeRapid))
        ELSE IF lastPos.z = maxz
        THEN LET move1 == SetMode([lastPos EXCEPT !.x = 0, !.y = 0], moveModeRapid)
                 move2 == [move1 EXCEPT !.z = 0]
             IN  stack \o <<move1, move2>>
        ELSE LET move1 == SetMode([lastPos EXCEPT !.z = maxz], moveModeRapid)
                 move2 == [move1 EXCEPT !.x = 0, !.y = 0]
                 move3 == [move2 EXCEPT !.z = 0]
             IN  stack \o <<move1, move2, move3>>

-----------------------------------------------------------------------------
(* OptRouteGrouping *)

NoPanic == "none"

\* One iteration of the loop "Find grouped drills".
\* s = [last |-> <<lastx, lasty, lastz>>, sets, curSet, safetyHeight,
\*      drillSpeed, sequenceStarted, panic]
GroupStep(s, m) ==
    LET lastx == s.last[1]
        lasty == s.last[2]
        lastz == s.last[3]
        updateLast(t) ==
            [t EXCEPT !.safetyHeight = IF m.z > @ THEN m.z ELSE @,
                      !.last = <<m.x, m.y, m.z>>]
        regular(t) ==
            IF t.sequenceStarted THEN [t EXCEPT !.curSet = Append(@, m)] ELSE t
    IN  IF s.panic # NoPanic THEN s
        ELSE IF m.z # lastz /\ (m.x # lastx \/ m.y # lasty)
        THEN [s EXCEPT !.panic = "Complex z-motion detected"]
        ELSE IF m.x = lastx /\ m.y = lasty /\ lastz >= 0 /\ m.z < 0
        THEN \* Down move
             LET down == [s EXCEPT !.sequenceStarted = TRUE,
                                   !.curSet = Append(@, m)]
             IN  IF m.state.moveMode = moveModeLinear
                    /\ m.state.feedrate > s.drillSpeed
                 THEN IF s.drillSpeed # 0
                      THEN [down EXCEPT !.panic = "Multiple drill feedrates detected"]
                      ELSE updateLast(regular(
                               [down EXCEPT !.drillSpeed = m.state.feedrate]))
                 ELSE updateLast(regular(down))
        ELSE IF m.x = lastx /\ m.y = lasty /\ lastz < 0 /\ m.z >= 0
        THEN \* Up move - ignored in set
             updateLast([s EXCEPT
                 !.sets = IF s.sequenceStarted THEN Append(@, s.curSet) ELSE @,
                 !.curSet = <<>>])
        ELSE updateLast(regular(s))

RECURSIVE GroupScan(_, _, _)
GroupScan(stack, i, s) ==
    IF i > Len(stack) THEN s ELSE GroupScan(stack, i + 1, GroupStep(s, stack[i]))

FindSets(stack) ==
    GroupScan(stack, 1,
              [last |-> <<0, 0, 0>>, sets |-> <<>>, curSet |-> <<>>,
               safetyHeight |-> 0, drillSpeed |-> 0, sequenceStarted |-> FALSE,
               panic |-> NoPanic])

\* The checks made after the scan; the result is the panic raised, or NoPanic.
ScanPanic(s) ==
    IF s.panic # NoPanic THEN s.panic
    ELSE IF s.safetyHeight = 0 THEN "Unable to detect safety height"
    ELSE IF s.drillSpeed = 0 THEN "Unable to detect drill feedrate"
    ELSE IF Len(s.curSet) = 1
    THEN LET p == s.curSet[1]
         IN  IF p.z # s.safetyHeight \/ s.last[3] # s.safetyHeight
                \/ p.x # 0 \/ p.y # 0
             THEN "Incomplete final drill set"
             ELSE NoPanic
    ELSE IF Len(s.curSet) > 0 THEN "Incomplete final drill set"
    ELSE NoPanic

\* diffFromCur squared.  math.Sqrt is strictly increasing on the exact small
\* integers it is given here, so diff < other is decided by the squares.
diffFromCur(cur, pos) ==
    LET x == Max2(cur[1], pos.x) - Min2(cur[1], pos.x)
        y == Max2(cur[2], pos.y) - Min2(cur[2], pos.y)
        z == Max2(cur[3], pos.z) - Min2(cur[3], pos.z)
    IN  x * x + y * y + z * z

\* The inner loop "for idx, _ := range sets"; selectedSet = 0 stands for -1
\* and indices are 1-based.
RECURSIVE SelectSet(_, _, _, _)
SelectSet(sets, cur, idx, selectedSet) ==
    IF idx > Len(sets) THEN selectedSet
    ELSE SelectSet(sets, cur, idx + 1,
            IF selectedSet = 0 THEN idx
            ELSE IF diffFromCur(cur, sets[idx][1])
                    < diffFromCur(cur, sets[selectedSet][1])
                 THEN idx
                 ELSE selectedSet)

RemoveAt(s, i) == SubSeq(s, 1, i - 1) \o SubSeq(s, i + 1, Len(s))

\* The loop "Sort the sets after distance from current position".
RECURSIVE SortSets(_, _, _, _)
SortSets(sets, cur, selectedSet, sortedSets) ==
    IF Len(sets) = 0 THEN sortedSets
    ELSE LET sel == SelectSet(sets, cur, 1, selectedSet)
             first == sets[sel][1]
         IN  SortSets(RemoveAt(sets, sel), <<first.x, first.y, first.z>>, 0,
                      Append(sortedSets, sets[sel]))

\* moveTo: newPos extended by the travel to pos.
moveTo(newPos, pos, tol, safetyHeight, drillSpeed) ==
    LET curPos == Last(newPos)
    IN  IF Abs(curPos.x - pos.x) < tol /\ Abs(curPos.y - pos.y) < tol
        THEN LET corrected ==
                     IF curPos.x # pos.x \/ curPos.y # pos.y
                     THEN Append(newPos,
                                 SetMode([curPos EXCEPT !.x = pos.x, !.y = pos.y],
                                         moveModeLinear))
                     ELSE newPos
             IN  IF pos.z = safetyHeight THEN corrected ELSE Append(corrected, pos)
        ELSE LET step1 == SetMode([curPos EXCEPT !.z = safetyHeight], moveModeRapid)
                 step2 == [step1 EXCEPT !.x = pos.x, !.y = pos.y]
                 step3 == [step2 EXCEPT !.z = pos.z,
                                        !.state.moveMode = moveModeLinear,
                                        !.state.feedrate = drillSpeed]
             IN  newPos \o <<step1, step2, step3>>

\* The loop "Reconstruct new position stack from sorted sections".
RECURSIVE Rebuild(_, _, _, _, _, _)
Rebuild(sortedSets, k, newPos, tol, safetyHeight, drillSpeed) ==
    IF k > Len(sortedSets) THEN newPos
    ELSE LET m == sortedSets[k]
         IN  Rebuild(sortedSets, k + 1,
                     moveTo(newPos, m[1], tol, safetyHeight, drillSpeed)
                         \o SubSeq(m, 2, Len(m)),
                     tol, safetyHeight, drillSpeed)

\* The sets in the order they are emitted.
SortedSets(stack) == SortSets(FindSets(stack).sets, <<0, 0, 0>>, 1, <<>>)

\* A variant that commits the rebuilt stack before the check of the final set,
\* so that an "Incomplete final drill set" is reported after the mutation.
OptRouteGrouping_CommitFirst(stack, tol) ==
    LET s == FindSets(stack)
        panic == ScanPanic(s)
    IN  IF panic = "Incomplete final drill set"
        THEN [err |-> TRUE,
              stack |-> Rebuild(SortedSets(stack), 1, <<stack[1]>>, tol,
                                s.safetyHeight, s.drillSpeed)]
        ELSE IF panic # NoPanic
        THEN [err |-> TRUE, stack |-> stack]
        ELSE [err |-> FALSE,
              stack |-> Rebuild(SortedSets(stack), 1, <<stack[1]>>, tol,
                                s.safetyHeight, s.drillSpeed)]

OptRouteGrouping(stack, tol) ==
    LET s == FindSets(stack)
        panic == ScanPanic(s)
    IN  IF panic # NoPanic
        THEN [err |-> TRUE, stack |-> stack]
        ELSE [err |-> FALSE,
              stack |-> Rebuild(SortedSets(stack), 1, <<stack[1]>>, tol,
                                s.safetyHeight, s.drillSpeed)]

-----------------------------------------------------------------------------
(* LimitFeedrate and FeedrateMultiplier *)

\* Every feedrate above feed becomes feed.
LimitFeedrate(stack, feed) ==
    [idx \in 1..Len(stack) |->
        IF stack[idx].state.feedrate > feed
        THEN [stack[idx] EXCEPT !.state.feedrate = feed]
        ELSE stack[idx]]

\* Every feedrate is multiplied.
FeedrateMultiplier(stack, feedMultiplier) ==
    [idx \in 1..Len(stack) |->
        [stack[idx] EXCEPT !.state.feedrate = @ * feedMultiplier]]

-----------------------------------------------------------------------------
(* The passes as operations on the machine *)

\* The longest toolpath and the highest feedrate followed: a pass whose result
\* would go beyond them is not taken.
MaxStackLen == 16
MaxFeed == 2

\* The highest feedrate of a toolpath (0 for the empty one).
TopFeed(stack) ==
    IF Len(stack) = 0 THEN 0
    ELSE CHOOSE f \in {stack[i].state.feedrate : i \in 1..Len(stack)} :
             \A i \in 1..Len(stack) : stack[i].state.feedrate <= f

\* A pass is called on the current toolpath, which may be the result of earlier
\* passes; the state keeps what the pass was given and the number it was given.
Call(name, result, failed, h) ==
    /\ Len(result) <= MaxStackLen
    /\ TopFeed(result) <= MaxFeed
    /\ op' = name
    /\ input' = posStack
    /\ posStack' = result
    /\ err' = failed
    /\ height' = h
    /\ UNCHANGED tolerance

DoOptDrillSpeed == Call("OptDrillSpeed", OptDrillSpeed(posStack), FALSE, 0)

DoOptLiftSpeed == Call("OptLiftSpeed", OptLiftSpeed(posStack), FALSE, 0)

DoOptBogusMoves == Call("OptBogusMoves", OptBogusMoves(posStack), FALSE, 0)

\* Return indexes the last record: the caller gives it a non-empty toolpath.
DoReturn ==
    /\ Len(posStack) > 0
    /\ Call("Return", Return(posStack), FALSE, 0)

Heights == {0, 1, 2}

DoSetSafetyHeight ==
    \E h \in Heights :
        LET r == SetSafetyHeight(posStack, h)
        IN  Call("SetSafetyHeight", r.stack, r.err, h)

DoOptRouteGrouping ==
    LET r == OptRouteGrouping(posStack, tolerance)
    IN  Call("OptRouteGrouping", r.stack, r.err, 0)

FeedLimits == {1}

DoLimitFeedrate ==
    \E feed \in FeedLimits :
        Call("LimitFeedrate", LimitFeedrate(posStack, feed), FALSE, feed)

FeedMultipliers == {2}

DoFeedrateMultiplier ==
    \E feedMultiplier \in FeedMultipliers :
        Call("FeedrateMultiplier", FeedrateMultiplier(posStack, feedMultiplier),
             FALSE, feedMultiplier)

-----------------------------------------------------------------------------
(* Toolpaths of the null move and arbitrary records after it, for the passes *)
(* that rewrite record by record                                            *)

MaxShortLen == 4

ShortLocs == {<<0, 0>>, <<1, 0>>, <<0, 1>>}
ShortZs == {-1, 0, 1, 2}
ModeFeeds == {<<moveModeRapid, 1>>, <<moveModeLinear, 1>>,
              <<moveModeLinear, 2>>, <<moveModeArc, 1>>}

\* The path generator hands over more records; the toolpath is loaded before
\* the first pass is called.
Hand(moves) ==
    /\ op = "none"
    /\ posStack' = posStack \o moves
    /\ UNCHANGED <<tolerance, input, op, height, err>>

AddMove ==
    /\ Len(posStack) < MaxShortLen
    /\ \E l \in ShortLocs, z \in ShortZs, mf \in ModeFeeds :
           Hand(<<Pos(l[1], l[2], z, mf[1], mf[2])>>)

InitShort ==
    /\ posStack = <<NullMove>>
    /\ tolerance = 1
    /\ input = <<>>
    /\ op = "none"
    /\ height = 0
    /\ err = FALSE

NextShort ==
    \/ AddMove
    \/ DoOptDrillSpeed
    \/ DoOptLiftSpeed
    \/ DoOptBogusMoves
    \/ DoLimitFeedrate
    \/ DoFeedrateMultiplier

SpecShort == InitShort /\ [][NextShort]_vars

-----------------------------------------------------------------------------
(* Toolpaths of the null move and arbitrary records after it, for the passes *)
(* that can fail and for Return                                             *)

MaxPointLen == 3

PointLocs == {<<0, 0>>, <<1, 0>>, <<0, 1>>}
PointZs == {-1, 0, 1, 2}
PointModeFeeds == {<<moveModeRapid, 1>>, <<moveModeLinear, 1>>, <<moveModeLinear, 2>>}

AddPoint ==
    /\ Len(posStack) < MaxPointLen
    /\ \E l \in PointLocs, z \in PointZs, mf \in PointModeFeeds :
           Hand(<<Pos(l[1], l[2], z, mf[1], mf[2])>>)

NextPoint ==
    \/ AddPoint
    \/ DoReturn
    \/ DoSetSafetyHeight
    \/ DoOptRouteGrouping
    \/ DoLimitFeedrate
    \/ DoFeedrateMultiplier

SpecPoint == InitShort /\ [][NextPoint]_vars

-----------------------------------------------------------------------------
(* Toolpaths that start with the null move and go on with z-only moves,     *)
(* xy-only moves and drill cycles, for route grouping                       *)

MaxMoveLen == 4
MaxRouteLen == 13

RouteLocs == {<<0, 0>>, <<1, 0>>, <<0, 1>>}
CycleLocs == {<<0, 0>>, <<1, 0>>, <<0, 1>>, <<2, 0>>, <<0, 3>>}
RouteZs == {-1, 1, 2}
DrillFeeds == {1, 2}
Tolerances == {1, 2}

\* Where the tool is after the records handed over so far.
ToolAt == <<Last(posStack).x, Last(posStack).y, Last(posStack).z>>

\* The generator plunges at the current (x,y) with a drill feedrate.
AddDive ==
    /\ Len(posStack) < MaxMoveLen
    /\ ToolAt[3] >= 0
    /\ \E z \in {d \in RouteZs : d < 0}, f \in DrillFeeds :
           Hand(<<Pos(ToolAt[1], ToolAt[2], z, moveModeLinear, f)>>)

\* Feed moves below z=0, rapid moves at z>=0.
TravelMode(z) == IF z < 0 THEN moveModeLinear ELSE moveModeRapid

\* The generator changes z alone (or repeats the position), but does not plunge.
AddZMove ==
    /\ Len(posStack) < MaxMoveLen
    /\ \E z \in RouteZs :
           /\ ~(ToolAt[3] >= 0 /\ z < 0)
           /\ Hand(<<Pos(ToolAt[1], ToolAt[2], z, TravelMode(z), 1)>>)

\* The generator changes (x,y) at constant z.
AddXYMove ==
    /\ Len(posStack) < MaxMoveLen
    /\ \E l \in RouteLocs :
           /\ l # <<ToolAt[1], ToolAt[2]>>
           /\ Hand(<<Pos(l[1], l[2], ToolAt[3], TravelMode(ToolAt[3]), 1)>>)

\* The generator emits a drill cycle: traverse at the current height, plunge,
\* lift back to that height.
AddCycle ==
    /\ Len(posStack) + 3 <= MaxRouteLen
    /\ ToolAt[3] >= 0
    /\ \E l \in CycleLocs :
           Hand((IF l = <<ToolAt[1], ToolAt[2]>> THEN <<>>
                 ELSE <<Pos(l[1], l[2], ToolAt[3], moveModeRapid, 1)>>)
                \o <<Pos(l[1], l[2], -1, moveModeLinear, 1),
                     Pos(l[1], l[2], ToolAt[3], moveModeRapid, 1)>>)

InitRoute ==
    /\ posStack = <<NullMove>>
    /\ tolerance \in Tolerances
    /\ input = <<>>
    /\ op = "none"
    /\ height = 0
    /\ err = FALSE

NextRoute ==
    \/ AddDive
    \/ AddZMove
    \/ AddXYMove
    \/ AddCycle
    \/ DoOptRouteGrouping
    \/ DoLimitFeedrate
    \/ DoFeedrateMultiplier

SpecRoute == InitRoute /\ [][NextRoute]_vars

Spec == SpecRoute

-----------------------------------------------------------------------------
(* Claims about the record-by-record passes (SpecShort) *)

XYZ(p) == <<p.x, p.y, p.z>>

\* The position before record i of s: the previous record, or the origin the
\* machine starts at.
Before(s, i) == IF i = 1 THEN <<0, 0, 0>> ELSE XYZ(s[i - 1])

SameXY(s, i) == s[i].x = Before(s, i)[1] /\ s[i].y = Before(s, i)[2]

SetMax(S) == CHOOSE m \in S : \A n \in S : n <= m

SetMin(S) == CHOOSE m \in S : \A n \in S : m <= n

RECURSIVE Flatten(_)
Flatten(ss) == IF Len(ss) = 0 THEN <<>> ELSE Head(ss) \o Flatten(Tail(ss))

IsOpaque(p) == p.state.moveMode # moveModeRapid /\ p.state.moveMode # moveModeLinear

\* C5's qualifying move: Linear, same (x,y) as the preceding record, lower z.
C5_Qualifying(s, i) ==
    /\ s[i].state.moveMode = moveModeLinear
    /\ SameXY(s, i)
    /\ s[i].z < Before(s, i)[3]

C5_EarlierDepths(s, i) ==
    {s[j].z : j \in {k \in 1..(i - 1) :
                        /\ C5_Qualifying(s, k)
                        /\ s[k].x = s[i].x /\ s[k].y = s[i].y}}

C5_Emitted(s, i) ==
    IF C5_Qualifying(s, i) /\ C5_EarlierDepths(s, i) # {}
    THEN LET D == SetMin(C5_EarlierDepths(s, i))
         IN  IF s[i].z >= D
             THEN <<SetMode(s[i], moveModeRapid)>>
             ELSE <<SetMode([s[i] EXCEPT !.z = D], moveModeRapid), s[i]>>
    ELSE <<s[i]>>

\* C5 (as claimed): after OptDrillSpeed every qualifying move at a location
\* with an earlier qualifying move, D the minimum z of those whatever its sign,
\* is emitted as a Rapid copy when z >= D and as a Rapid copy at z = D followed
\* by the original when z < D; every other move is emitted unchanged, in order.
C5_DrillMemoAnySign ==
    op = "OptDrillSpeed" =>
        posStack = Flatten([i \in 1..Len(input) |-> C5_Emitted(input, i)])

\* The maximum z observed in the records of s.
MaxObservedZ(s) == SetMax({s[i].z : i \in 1..Len(s)})

\* The four cases of Return, with M the height taken as the path's maximum.
C6_Cases(M) ==
    LET n == Len(input)
        lastPos == input[n]
        expected == IF XYZ(lastPos) = <<0, 0, 0>> THEN 0
                    ELSE IF lastPos.x = 0 /\ lastPos.y = 0 THEN 1
                    ELSE IF lastPos.z = M THEN 2
                    ELSE 3
    IN  /\ Len(posStack) = n + expected
        /\ SubSeq(posStack, 1, n) = input
        /\ XYZ(Last(posStack)) = <<0, 0, 0>>
        /\ \A i \in (n + 1)..Len(posStack) :
               /\ posStack[i].state.moveMode = moveModeRapid
               /\ ~SameXY(posStack, i) =>
                      posStack[i].z = M /\ posStack[i - 1].z = M
        /\ Return(posStack) = posStack

\* C6: after Return the path ends at (0,0,0), the original records are an
\* unchanged prefix, the appended records are Rapid and number 0, 1, 2 or 3 by
\* the four cases on the last move, every appended move that changes x or y is
\* made at the maximum z observed in the path, and a second Return appends
\* nothing.
C6_ReturnCases == op = "Return" => C6_Cases(MaxObservedZ(input))

\* C6's case: the path ends away from the origin and below its maximum height,
\* which is above z = 0, and Return lifts to it, traverses and descends.
C6_Witness ==
    /\ op = "Return"
    /\ MaxObservedZ(input) > 0
    /\ Last(input).z < MaxObservedZ(input)
    /\ Len(posStack) = Len(input) + 3
    /\ XYZ(posStack[Len(input) + 1])
           = <<Last(input).x, Last(input).y, MaxObservedZ(input)>>
    /\ XYZ(posStack[Len(input) + 2]) = <<0, 0, MaxObservedZ(input)>>

\* What SetSafetyHeight does, with M the height taken as the maximum and N the
\* height taken as the next highest.
C7_Cases(M, N) ==
    /\ err <=> height <= N
    /\ err => posStack = input
    /\ ~err =>
           posStack = [i \in 1..Len(input) |->
                          IF SameXY(input, i) /\ input[i].z = M
                          THEN [input[i] EXCEPT !.z = height]
                          ELSE input[i]]

\* The z values of s strictly below M.
LowerZs(s, M) == {z \in {s[i].z : i \in 1..Len(s)} : z < M}

\* C7 (as claimed): with M the maximum z of the path and N the highest z
\* strictly below M, SetSafetyHeight(h) fails exactly when h <= N, and on
\* success exactly the records with unchanged (x,y) and z = M get z = h.
C7_SafetyHeightExact ==
    (op = "SetSafetyHeight" /\ Len(input) > 0
        /\ LowerZs(input, MaxObservedZ(input)) # {}) =>
        C7_Cases(MaxObservedZ(input), SetMax(LowerZs(input, MaxObservedZ(input))))

\* C7 (amended): the same with M the greater of 0 and the maximum z of the
\* path, and N the greater of 0 and the highest z strictly below M.
C7_SafetyHeightFromZero ==
    op = "SetSafetyHeight" =>
        LET M == IF Len(input) = 0 THEN 0 ELSE Max2(0, MaxObservedZ(input))
        IN  C7_Cases(M, SetMax(LowerZs(input, M) \cup {0}))

\* C7's case: a height above a positive lower feed height is accepted and the
\* records at the old maximum are rewritten.
C7_Witness ==
    /\ op = "SetSafetyHeight"
    /\ ~err
    /\ posStack # input
    /\ \E i \in 1..Len(input) : input[i].z > 0 /\ input[i].z < height

\* C1: when OptRouteGrouping or SetSafetyHeight returns an error, the toolpath
\* is record for record what it was before the call.
C1_FailedPassLeavesToolpath ==
    (op \in {"OptRouteGrouping", "SetSafetyHeight"} /\ err) => posStack = input

\* C1's case: route grouping fails on the final set after it has collected a
\* complete group that the rebuild would have re-emitted.
C1_Witness ==
    /\ op = "OptRouteGrouping"
    /\ err
    /\ ScanPanic(FindSets(input)) = "Incomplete final drill set"
    /\ Len(FindSets(input).sets) > 0

\* C8 (as claimed): OptDrillSpeed, OptLiftSpeed and OptBogusMoves keep every
\* record whose mode is neither Rapid nor Linear, unchanged and in order.
C8_OpaqueMovesPassThrough ==
    op \in {"OptDrillSpeed", "OptLiftSpeed", "OptBogusMoves"} =>
        SelectSeq(posStack, IsOpaque) = SelectSeq(input, IsOpaque)

\* The ways to read the output of OptBogusMoves as input records kept in order.
C10_Embeddings ==
    {f \in [1..Len(posStack) -> 1..Len(input)] :
        /\ \A j \in 1..Len(posStack) : posStack[j] = input[f[j]]
        /\ \A j \in 2..Len(posStack) : f[j - 1] < f[j]}

\* The input records that output record j stands for under f.
C10_Covered(f, j) == ((IF j = 1 THEN 0 ELSE f[j - 1]) + 1)..f[j]

\* C10 (as claimed): after OptBogusMoves every Rapid output record covers only
\* travel the input made with Rapid moves, and the path ends where it ended.
C10_NoFeedTravelMadeRapid ==
    op = "OptBogusMoves" =>
        /\ \E f \in C10_Embeddings :
               \A j \in 1..Len(posStack) :
                   posStack[j].state.moveMode = moveModeRapid =>
                       \A i \in C10_Covered(f, j) :
                           XYZ(input[i]) # Before(input, i) =>
                               input[i].state.moveMode = moveModeRapid
        /\ Before(posStack, Len(posStack) + 1) = Before(input, Len(input) + 1)

-----------------------------------------------------------------------------
(* Claims about route grouping (SpecRoute) *)

Grouped == op = "OptRouteGrouping" /\ ~err

\* The records of s that enter z<0 from z>=0 at an unchanged (x,y).
Dives(s) == {i \in 1..Len(s) : s[i].z < 0 /\ Before(s, i)[3] >= 0 /\ SameXY(s, i)}

\* C2 (as claimed): OptRouteGrouping fails whenever two Linear dives carry two
\* different positive feedrates, whichever of the two comes first.
C2_TwoFeedratesRejected ==
    op = "OptRouteGrouping" =>
        ((\E i, j \in Dives(input) :
              /\ input[i].state.moveMode = moveModeLinear
              /\ input[j].state.moveMode = moveModeLinear
              /\ input[i].state.feedrate > 0
              /\ input[j].state.feedrate > 0
              /\ input[i].state.feedrate # input[j].state.feedrate)
         => err)

\* The last record of the group that starts at record i of s: the record
\* before the first one, from i on, that is back at z>=0.
GroupEnd(s, i) ==
    SetMax({e \in i..Len(s) : \A k \in i..e : s[k].z < 0})

\* The elements of a set of numbers in increasing order.
RECURSIVE Ascending(_)
Ascending(S) ==
    IF S = {} THEN <<>> ELSE <<SetMin(S)>> \o Ascending(S \ {SetMin(S)})

\* The groups of s, in the order they occur: each from a dive up to, but
\* excluding, the move that returns to z>=0.
InputGroups(s) ==
    LET starts == Ascending(Dives(s))
    IN  [k \in 1..Len(starts) |-> SubSeq(s, starts[k], GroupEnd(s, starts[k]))]

Bijections(n) ==
    {f \in [1..n -> 1..n] : \A a, b \in 1..n : f[a] = f[b] => a = b}

\* The indices, in order, of the records of s after the first that are below z=0.
BelowZero(s) == Ascending({i \in 2..Len(s) : s[i].z < 0})

\* Whether the output holds the groups gs in the order f, each once: its
\* records below z=0 are the records of the groups, a group's first point
\* compared by position only, the rest of a group unchanged and contiguous.
C3_HoldsGroups(out, gs, f) ==
    LET ordered == [k \in 1..Len(gs) |-> gs[f[k]]]
        expected == Flatten(ordered)
        firsts == {1 + Len(Flatten(SubSeq(ordered, 1, k - 1))) : k \in 1..Len(gs)}
        below == BelowZero(out)
    IN  /\ Len(below) = Len(expected)
        /\ \A k \in 1..Len(expected) :
               IF k \in firsts
               THEN XYZ(out[below[k]]) = XYZ(expected[k])
               ELSE out[below[k]] = expected[k] /\ below[k] = below[k - 1] + 1

\* C3 (as claimed): when OptRouteGrouping succeeds, every group of the input
\* appears exactly once in the output, its moves after the first unchanged,
\* contiguous and in order; only travel moves and the groups' first points
\* differ, and output record 0 is input record 0.
C3_GroupsAppearOnce ==
    Grouped =>
        /\ posStack[1] = input[1]
        /\ \E f \in Bijections(Len(InputGroups(input))) :
               C3_HoldsGroups(posStack, InputGroups(input), f)

\* C9 (as claimed): when OptRouteGrouping succeeds, no two consecutive records
\* of the output differ in z and also in x or y.
C9_OutputHasNoComplexMotion ==
    Grouped =>
        \A i \in 2..Len(posStack) :
            \/ posStack[i].z = posStack[i - 1].z
            \/ posStack[i].x = posStack[i - 1].x /\ posStack[i].y = posStack[i - 1].y

\* Squared Euclidean distance between a position and a record.
C4_Distance(cur, p) ==
    (cur[1] - p.x) * (cur[1] - p.x) + (cur[2] - p.y) * (cur[2] - p.y)
        + (cur[3] - p.z) * (cur[3] - p.z)

\* The greedy nearest-neighbour order over groups given by their first
\* positions: each next one the remaining group whose first position is closest
\* to the virtual position, the earliest in the input on a tie.
RECURSIVE C4_Greedy(_, _, _)
C4_Greedy(firsts, remaining, cur) ==
    IF remaining = {} THEN <<>>
    ELSE LET next == CHOOSE i \in remaining :
                         \A j \in remaining :
                             \/ C4_Distance(cur, firsts[i]) < C4_Distance(cur, firsts[j])
                             \/ /\ C4_Distance(cur, firsts[i]) = C4_Distance(cur, firsts[j])
                                /\ i <= j
         IN  <<next>> \o C4_Greedy(firsts, remaining \ {next}, XYZ(firsts[next]))

\* The order when a group's first position is its dive, the move that enters
\* z<0: the first record of the group as the partition defines it.
C4_DiveOrder(s) ==
    LET gs == InputGroups(s)
    IN  C4_Greedy([k \in 1..Len(gs) |-> gs[k][1]], 1..Len(gs), <<0, 0, 0>>)

\* C4 (as claimed): when OptRouteGrouping succeeds, the groups are emitted in
\* greedy nearest-neighbour order from (0,0,0) over the positions at which the
\* groups begin, ties going to the group that occurs earliest in the input, and
\* the emitted groups are a permutation of the input groups.
C4_NearestByDive ==
    Grouped =>
        LET s == FindSets(input)
            order == C4_DiveOrder(input)
        IN  /\ Len(InputGroups(input)) = Len(s.sets)
            /\ order \in Bijections(Len(s.sets))
            /\ SortedSets(input) = [k \in 1..Len(order) |-> s.sets[order[k]]]

====
